---- MODULE Spec2Model ----
(***************************************************************************)
(* The purelymail_user resource (UserResource.Create / Read / Update /     *)
(* Delete and readUser) running against the in-memory account API server   *)
(* (mock.Server).  One behaviour is one operation of the resource: Init    *)
(* draws the operation, its plan (desired configuration), its prior state  *)
(* (observed snapshot) and the server's state; every API call is one       *)
(* action.  A call is served by the server, or fails with a transport      *)
(* error or a non-success status before reaching it.                       *)
(***************************************************************************)
EXTENDS Integers, Sequences, FiniteSets, TLC

VARIABLES
    users,           \* Server.users: handle -> account record
    passwordResets,  \* Server.passwordResets: handle -> sequence of methods
    op,              \* the operation of the resource that runs
    pc,              \* its position: the API call it issues next, or "done"
    plan,            \* the plan of the operation as the caller gave it
    data,            \* var data UserResourceModel (the plan, then the result)
    state,           \* var state UserResourceModel (the prior state)
    idx,             \* the loop index of the method loop that runs
    log,             \* the API calls issued so far, with their outcomes
    diag,            \* resp.Diagnostics: "none", "warning" or "error"
    saved,           \* resp.State: <<>> (no resource) or <<snapshot>>
    faults           \* the failures injected so far

vars == <<users, passwordResets, op, pc, plan, data, state, idx, log, diag, saved, faults>>

(***************************************************************************)
(* Bounds of the model.                                                    *)
(***************************************************************************)
MaxMethods == 3      \* the longest password_reset_methods list of a plan
MaxObserved == 2     \* the longest password_reset_methods list of a prior state
MaxFaults == 1       \* the failures injected in one operation
MaxCalls == 4        \* the calls of a sequence sent to the server alone
MaxLen == 2          \* the characters of a handle or of a target
MaxOther == 2        \* the calls of the operation on the other handle

(***************************************************************************)
(* Values.                                                                 *)
(***************************************************************************)
Null == "null"          \* a Terraform null value
Unknown == "unknown"    \* a Terraform unknown value
Nil == "nil"            \* a nil pointer of an API request or response

StatusOK == 200
StatusNotFound == 404
StatusBadRequest == 400

IsNull(v) == v = Null
IsUnknown(v) == v = Unknown
\* types.Bool.ValueBool: false for null and unknown
ValueBool(v) == v = "true"
\* types.BoolValue
BoolValue(b) == IF b THEN "true" ELSE "false"

valueStringPtr(v) == IF IsNull(v) \/ IsUnknown(v) THEN Nil ELSE v

valueBoolPtr(v) == IF IsNull(v) \/ IsUnknown(v) THEN Nil ELSE v

Handles == {"alice", "bob"}

\* types.List: null, or known with its elements
ListNull == [isNull |-> TRUE, elems |-> <<>>]
ListValue(s) == [isNull |-> FALSE, elems |-> s]

\* PasswordResetMethodModel
MethodModel(ty, tg, de, al) ==
    [type |-> ty, target |-> tg, description |-> de, allow_mfa_reset |-> al]

(***************************************************************************)
(* The in-memory API server.                                               *)
(***************************************************************************)
NoUser == [exists |-> FALSE, enableSearchIndexing |-> FALSE,
           requireTwoFactorAuthentication |-> FALSE]

\* NewServer
NewUsers == [h \in Handles |-> NoUser]
NewPasswordResets == [h \in Handles |-> <<>>]

\* Server.CreateUser: the account is (re)initialised with the defaults
CreateUser(u, userName) ==
    [u EXCEPT ![userName] = [exists |-> TRUE, enableSearchIndexing |-> TRUE,
                             requireTwoFactorAuthentication |-> FALSE]]

\* Server.ModifyUser: 404 for a missing account; newUserName and newPassword
\* are not read
ModifyUserStatus(u, req) ==
    IF u[req.userName].exists THEN StatusOK ELSE StatusNotFound

ModifyUser(u, req) ==
    IF ~u[req.userName].exists THEN u
    ELSE [u EXCEPT ![req.userName] =
            [exists |-> TRUE,
             enableSearchIndexing |->
                IF req.enableSearchIndexing # Nil
                THEN req.enableSearchIndexing = "true"
                ELSE @.enableSearchIndexing,
             requireTwoFactorAuthentication |->
                IF req.requireTwoFactorAuthentication # Nil
                THEN req.requireTwoFactorAuthentication = "true"
                ELSE @.requireTwoFactorAuthentication]]

\* Server.GetUser
GetUserStatus(u, userName) ==
    IF u[userName].exists THEN StatusOK ELSE StatusNotFound

\* Server.DeleteUser
DeleteUserUsers(u, userName) == [u EXCEPT ![userName] = NoUser]
\* a bug: deleting an account drops the methods of every account
DeleteUserResets_All(p, userName) == [h \in DOMAIN p |-> <<>>]

DeleteUserResets(p, userName) == [p EXCEPT ![userName] = <<>>]

\* api.ListPasswordResetResponseItem built by the upsert handler
ResponseItem(req) ==
    [type |-> req.type, target |-> req.target,
     description |-> req.description, allowMfaReset |-> req.allowMfaReset]

IndexOfTarget(ms, target) ==
    IF \E i \in 1..Len(ms) : ms[i].target = target
    THEN CHOOSE i \in 1..Len(ms) :
            /\ ms[i].target = target
            /\ \A j \in 1..(i - 1) : ms[j].target # target
    ELSE 0

\* a bug: the upsert handler appends without looking for the target
CreateOrUpdatePasswordResetMethod_Append(p, req) ==
    [p EXCEPT ![req.userName] = Append(p[req.userName], ResponseItem(req))]

\* Server.CreateOrUpdatePasswordResetMethod: replace the first method with the
\* target in place, or append
CreateOrUpdatePasswordResetMethod(p, req) ==
    LET ms == p[req.userName]
        i == IndexOfTarget(ms, req.target)
    IN  [p EXCEPT ![req.userName] =
            IF i # 0 THEN [ms EXCEPT ![i] = ResponseItem(req)]
            ELSE Append(ms, ResponseItem(req))]

\* Server.DeletePasswordResetMethod: remove the first method with the target
DeletePasswordResetMethod(p, req) ==
    LET ms == p[req.userName]
        i == IndexOfTarget(ms, req.target)
    IN  [p EXCEPT ![req.userName] =
            IF i # 0 THEN SubSeq(ms, 1, i - 1) \o SubSeq(ms, i + 1, Len(ms))
            ELSE ms]

\* Server.ListPasswordResetMethods
ListPasswordResetMethods(p, userName) == p[userName]

(***************************************************************************)
(* API requests and their outcomes.                                        *)
(***************************************************************************)
\* a request body; the fields a request does not carry are nil
Request(api, userName) ==
    [api |-> api, userName |-> userName, newUserName |-> Nil, newPassword |-> Nil,
     enableSearchIndexing |-> Nil, requireTwoFactorAuthentication |-> Nil,
     type |-> Nil, target |-> Nil, description |-> Nil, allowMfaReset |-> Nil]

\* a call is served by the server, or fails before it: err != nil ("err"), or
\* a non-success status ("status")
Outcomes == {"serve"} \cup (IF faults < MaxFaults THEN {"err", "status"} ELSE {})

Response(o, served) ==
    [err |-> o = "err",
     status |-> IF o = "serve" THEN served
                ELSE IF o = "status" THEN StatusBadRequest ELSE 0]

\* err != nil, or StatusCode != http.StatusOK
Failed(r) == r.err \/ r.status # StatusOK

Logged(req, r) == Append(log, [req |-> req, err |-> r.err, status |-> r.status])

Charge(o) == IF o = "serve" THEN faults ELSE faults + 1

(***************************************************************************)
(* UserResource: the requests it builds.                                   *)
(***************************************************************************)
IsSet(v) == ~IsNull(v) /\ ~IsUnknown(v)

\* the credential of the combined modify request: password_wo before password
NewPassword(d) ==
    IF IsSet(d.password_wo) THEN valueStringPtr(d.password_wo)
    ELSE IF IsSet(d.password) THEN valueStringPtr(d.password)
    ELSE Nil

\* Create: hasModifications
CreateHasModifications(d) ==
    IsSet(d.password_wo) \/ IsSet(d.password) \/ ~IsNull(d.enable_search_indexing)

\* Create: modifyReq (initial settings, without 2FA)
CreateModifyReq(d) ==
    [Request("modifyUser", d.user_name) EXCEPT
        !.newPassword = NewPassword(d),
        !.enableSearchIndexing = valueBoolPtr(d.enable_search_indexing)]

\* Update: the rename test
Renames(d, s) == ~IsNull(d.new_user_name) /\ d.new_user_name # s.user_name

\* Update: hasModifications
UpdateHasModifications(d, s) ==
    Renames(d, s) \/ IsSet(d.password_wo) \/ IsSet(d.password)
        \/ ~IsNull(d.enable_search_indexing)

\* a bug: the combined modify request of Update carries require2FA
UpdateModifyReq_With2FA(d, s) ==
    [Request("modifyUser", s.user_name) EXCEPT
        !.newUserName = IF Renames(d, s) THEN valueStringPtr(d.new_user_name) ELSE Nil,
        !.newPassword = NewPassword(d),
        !.enableSearchIndexing = valueBoolPtr(d.enable_search_indexing),
        !.requireTwoFactorAuthentication =
            valueBoolPtr(d.require_two_factor_authentication)]

\* Update: modifyReq (username, password, search indexing)
UpdateModifyReq(d, s) ==
    [Request("modifyUser", s.user_name) EXCEPT
        !.newUserName = IF Renames(d, s) THEN valueStringPtr(d.new_user_name) ELSE Nil,
        !.newPassword = NewPassword(d),
        !.enableSearchIndexing = valueBoolPtr(d.enable_search_indexing)]

\* a bug: the later calls keep the old handle
Renamed_KeepsHandle(d, s) == [d EXCEPT !.id = d.user_name]

\* Update: data.UserName and data.Id after step 2
Renamed(d, s) ==
    IF Renames(d, s)
    THEN [d EXCEPT !.user_name = d.new_user_name, !.id = d.new_user_name]
    ELSE [d EXCEPT !.id = d.user_name]

\* the request that carries only require2FA
TwoFactorReq(userName, d) ==
    [Request("modifyUser", userName) EXCEPT
        !.requireTwoFactorAuthentication =
            valueBoolPtr(d.require_two_factor_authentication)]

\* a bug: the description is not sent
UpsertReq_NoDescription(userName, m) ==
    [Request("upsert", userName) EXCEPT
        !.type = m.type,
        !.target = m.target,
        !.allowMfaReset = IF IsSet(m.allow_mfa_reset) THEN m.allow_mfa_reset ELSE Nil]

\* upsertReq of one method
UpsertReq(userName, m) ==
    [Request("upsert", userName) EXCEPT
        !.type = m.type,
        !.target = m.target,
        !.description = IF IsSet(m.description) THEN m.description ELSE Nil,
        !.allowMfaReset = IF IsSet(m.allow_mfa_reset) THEN m.allow_mfa_reset ELSE Nil]

DeleteReq(userName, target) ==
    [Request("delete", userName) EXCEPT !.target = target]

\* the elements of a list attribute; none for a null list
Elements(l) == IF l.isNull THEN <<>> ELSE l.elems

\* Update: stateMethods and planMethods
StateMethods(s) == Elements(s.password_reset_methods)
PlanMethods(d) == Elements(d.password_reset_methods)

\* a bug: planTargets is left empty
PlanTargets_Empty(d) == {}

\* Update: planTargets
PlanTargets(d) == {PlanMethods(d)[i].target : i \in 1..Len(PlanMethods(d))}

\* a bug: the delete loop deletes every method of the state
NextDelete_All(d, s, i) == IF i <= Len(StateMethods(s)) THEN i ELSE 0

\* Update: the next method of the state, from index i on, that the delete
\* loop deletes (0: none)
NextDelete(d, s, i) ==
    LET c == {j \in i..Len(StateMethods(s)) :
                StateMethods(s)[j].target \notin PlanTargets(d)}
    IN  IF c = {} THEN 0 ELSE CHOOSE j \in c : \A k \in c : j <= k

(***************************************************************************)
(* UserResource: the 2FA conditions and the order of the steps.            *)
(***************************************************************************)
\* a bug: Create skips the 2FA transition when the plan holds no method
CreateEnables2FA_NeedsMethods(d) ==
    /\ ~IsNull(d.require_two_factor_authentication)
    /\ ValueBool(d.require_two_factor_authentication)
    /\ Len(PlanMethods(d)) > 0

\* Create, step 3
CreateEnables2FA(d) ==
    ~IsNull(d.require_two_factor_authentication)
        /\ ValueBool(d.require_two_factor_authentication)

\* Update, step 1
UpdateDisables2FA(d, s) ==
    /\ ~IsNull(s.require_two_factor_authentication)
    /\ ValueBool(s.require_two_factor_authentication)
    /\ ~IsNull(d.require_two_factor_authentication)
    /\ ~ValueBool(d.require_two_factor_authentication)

\* Update, step 4
UpdateEnables2FA(d, s) ==
    \/ /\ ~IsNull(s.require_two_factor_authentication)
       /\ ~ValueBool(s.require_two_factor_authentication)
       /\ ~IsNull(d.require_two_factor_authentication)
       /\ ValueBool(d.require_two_factor_authentication)
    \/ /\ IsNull(s.require_two_factor_authentication)
       /\ ~IsNull(d.require_two_factor_authentication)
       /\ ValueBool(d.require_two_factor_authentication)

\* Create: the call that follows the upsert loop
CreateAfterUpserts(d) == IF CreateEnables2FA(d) THEN "enable2FA" ELSE "getUser"

\* a bug: 2FA is enabled before the methods are upserted
CreateAfterModify_SkipUpserts(d) == CreateAfterUpserts(d)

\* Create: the call that follows the combined modify call
CreateAfterModify(d) ==
    IF Len(PlanMethods(d)) > 0 THEN "upsert" ELSE CreateAfterUpserts(d)

\* Create: the call that follows CreateUser
CreateAfterCreateUser(d) ==
    IF CreateHasModifications(d) THEN "modifyUser" ELSE CreateAfterModify(d)

\* Update: the call that follows the upsert loop
UpdateAfterUpserts(d, s) == IF UpdateEnables2FA(d, s) THEN "enable2FA" ELSE "getUser"

\* a bug: 2FA is enabled before the methods are upserted
UpdateAfterDeletes_SkipUpserts(d, s) == UpdateAfterUpserts(d, s)

\* Update: the call that follows the delete loop
UpdateAfterDeletes(d, s) ==
    IF Len(PlanMethods(d)) > 0 THEN "upsert" ELSE UpdateAfterUpserts(d, s)

\* a bug: the delete loop is skipped
UpdateAfterModify_SkipDeletes(d, s) == UpdateAfterDeletes(d, s)

\* Update: the call that follows step 2
UpdateAfterModify(d, s) ==
    IF NextDelete(d, s, 1) # 0 THEN "delete" ELSE UpdateAfterDeletes(d, s)

\* Update: the call that follows step 1
UpdateAfterDisable(d, s) ==
    IF UpdateHasModifications(d, s) THEN "modifyUser" ELSE UpdateAfterModify(d, s)

\* a bug: 2FA is not disabled before the other steps
UpdateFirst_NoDisable(d, s) == UpdateAfterDisable(d, s)

\* Update: the first call
UpdateFirst(d, s) ==
    IF UpdateDisables2FA(d, s) THEN "disable2FA" ELSE UpdateAfterDisable(d, s)

(***************************************************************************)
(* The steps of an operation.                                              *)
(***************************************************************************)
\* a bug: the failed call is issued again
Abort_Retry ==
    /\ diag' = "error"
    /\ UNCHANGED <<pc, data, idx, saved>>

\* a bug: after a failed call the operation goes on with its read back
Abort_Continue ==
    /\ diag' = "error"
    /\ pc' = "getUser"
    /\ UNCHANGED <<data, idx, saved>>

\* a failed mutation call: AddError and return; resp.State is not written
Abort ==
    /\ diag' = "error"
    /\ pc' = "done"
    /\ UNCHANGED <<data, idx, saved>>

\* the write-only fields are cleared before resp.State.Set
Cleared(d) == [d EXCEPT !.password = Null, !.new_user_name = Null]

\* a bug: Read keeps the resource when the account was not found
Return_KeepsNotFound(found, err, d) ==
    /\ pc' = "done"
    /\ data' = d
    /\ idx' = idx
    /\ IF op = "read"
       THEN /\ diag' = IF err THEN "error" ELSE diag
            /\ saved' = IF err \/ ~found THEN saved ELSE <<Cleared(d)>>
       ELSE /\ diag' = IF err THEN "warning" ELSE diag
            /\ saved' = <<Cleared(d)>>

\* what an operation does with readUser's (found, err)
Return(found, err, d) ==
    /\ pc' = "done"
    /\ data' = d
    /\ idx' = idx
    /\ IF op = "read"
       THEN /\ diag' = IF err THEN "error" ELSE diag
            /\ saved' = IF err THEN saved
                        ELSE IF ~found THEN <<>> ELSE <<Cleared(d)>>
       ELSE /\ diag' = IF err THEN "warning" ELSE diag
            /\ saved' = <<Cleared(d)>>

\* Create: the next call; data.Id = data.UserName before the read back
CreateGoto(next) ==
    /\ pc' = next
    /\ idx' = 1
    /\ data' = IF next = "getUser" THEN [data EXCEPT !.id = data.user_name] ELSE data
    /\ UNCHANGED <<diag, saved>>

\* Update: the next call
UpdateGoto(next, d) ==
    /\ pc' = next
    /\ idx' = IF next = "delete" THEN NextDelete(d, state, 1) ELSE 1
    /\ data' = d
    /\ UNCHANGED <<diag, saved>>

\* Create, step 1: CreateUser
CreateCreateUser ==
    /\ op = "create" /\ pc = "createUser"
    /\ \E o \in Outcomes :
        LET req == Request("createUser", data.user_name)
            r == Response(o, StatusOK)
        IN  /\ log' = Logged(req, r)
            /\ faults' = Charge(o)
            /\ users' = IF o = "serve" THEN CreateUser(users, req.userName) ELSE users
            /\ UNCHANGED <<passwordResets, op, plan, state>>
            /\ IF Failed(r) THEN Abort ELSE CreateGoto(CreateAfterCreateUser(data))

\* Create: the combined modify call
CreateModifyUser ==
    /\ op = "create" /\ pc = "modifyUser"
    /\ \E o \in Outcomes :
        LET req == CreateModifyReq(data)
            r == Response(o, ModifyUserStatus(users, req))
        IN  /\ log' = Logged(req, r)
            /\ faults' = Charge(o)
            /\ users' = IF o = "serve" THEN ModifyUser(users, req) ELSE users
            /\ UNCHANGED <<passwordResets, op, plan, state>>
            /\ IF Failed(r) THEN Abort ELSE CreateGoto(CreateAfterModify(data))

\* Create, step 2: one upsert of the loop over the plan's methods
CreateUpsert ==
    /\ op = "create" /\ pc = "upsert"
    /\ \E o \in Outcomes :
        LET req == UpsertReq(data.user_name, PlanMethods(data)[idx])
            r == Response(o, StatusOK)
        IN  /\ log' = Logged(req, r)
            /\ faults' = Charge(o)
            /\ passwordResets' =
                IF o = "serve" THEN CreateOrUpdatePasswordResetMethod(passwordResets, req)
                ELSE passwordResets
            /\ UNCHANGED <<users, op, plan, state>>
            /\ IF Failed(r) THEN Abort
               ELSE IF idx < Len(PlanMethods(data))
               THEN /\ idx' = idx + 1
                    /\ UNCHANGED <<pc, data, diag, saved>>
               ELSE CreateGoto(CreateAfterUpserts(data))

\* Create, step 3: enable 2FA
CreateEnable2FA ==
    /\ op = "create" /\ pc = "enable2FA"
    /\ \E o \in Outcomes :
        LET req == TwoFactorReq(data.user_name, data)
            r == Response(o, ModifyUserStatus(users, req))
        IN  /\ log' = Logged(req, r)
            /\ faults' = Charge(o)
            /\ users' = IF o = "serve" THEN ModifyUser(users, req) ELSE users
            /\ UNCHANGED <<passwordResets, op, plan, state>>
            /\ IF Failed(r) THEN Abort ELSE CreateGoto("getUser")

\* Update, step 1: disable 2FA first
UpdateDisable2FA ==
    /\ op = "update" /\ pc = "disable2FA"
    /\ \E o \in Outcomes :
        LET req == TwoFactorReq(state.user_name, data)
            r == Response(o, ModifyUserStatus(users, req))
            next == UpdateAfterDisable(data, state)
        IN  /\ log' = Logged(req, r)
            /\ faults' = Charge(o)
            /\ users' = IF o = "serve" THEN ModifyUser(users, req) ELSE users
            /\ UNCHANGED <<passwordResets, op, plan, state>>
            /\ IF Failed(r) THEN Abort
               ELSE UpdateGoto(next, IF next = "modifyUser" THEN data
                                     ELSE Renamed(data, state))

\* Update, step 2: the combined modify call
UpdateModifyUser ==
    /\ op = "update" /\ pc = "modifyUser"
    /\ \E o \in Outcomes :
        LET req == UpdateModifyReq(data, state)
            r == Response(o, ModifyUserStatus(users, req))
        IN  /\ log' = Logged(req, r)
            /\ faults' = Charge(o)
            /\ users' = IF o = "serve" THEN ModifyUser(users, req) ELSE users
            /\ UNCHANGED <<passwordResets, op, plan, state>>
            /\ IF Failed(r) THEN Abort
               ELSE UpdateGoto(UpdateAfterModify(data, state), Renamed(data, state))

\* Update, step 3: one delete of the loop over the state's methods
UpdateDelete ==
    /\ op = "update" /\ pc = "delete"
    /\ \E o \in Outcomes :
        LET req == DeleteReq(data.user_name, StateMethods(state)[idx].target)
            r == Response(o, StatusOK)
            n == NextDelete(data, state, idx + 1)
        IN  /\ log' = Logged(req, r)
            /\ faults' = Charge(o)
            /\ passwordResets' =
                IF o = "serve" THEN DeletePasswordResetMethod(passwordResets, req)
                ELSE passwordResets
            /\ UNCHANGED <<users, op, plan, state>>
            /\ IF Failed(r) THEN Abort
               ELSE IF n # 0
               THEN /\ idx' = n
                    /\ UNCHANGED <<pc, data, diag, saved>>
               ELSE UpdateGoto(UpdateAfterDeletes(data, state), data)

\* Update, step 3: one upsert of the loop over the plan's methods
UpdateUpsert ==
    /\ op = "update" /\ pc = "upsert"
    /\ \E o \in Outcomes :
        LET req == UpsertReq(data.user_name, PlanMethods(data)[idx])
            r == Response(o, StatusOK)
        IN  /\ log' = Logged(req, r)
            /\ faults' = Charge(o)
            /\ passwordResets' =
                IF o = "serve" THEN CreateOrUpdatePasswordResetMethod(passwordResets, req)
                ELSE passwordResets
            /\ UNCHANGED <<users, op, plan, state>>
            /\ IF Failed(r) THEN Abort
               ELSE IF idx < Len(PlanMethods(data))
               THEN /\ idx' = idx + 1
                    /\ UNCHANGED <<pc, data, diag, saved>>
               ELSE UpdateGoto(UpdateAfterUpserts(data, state), data)

\* Update, step 4: enable 2FA last
UpdateEnable2FA ==
    /\ op = "update" /\ pc = "enable2FA"
    /\ \E o \in Outcomes :
        LET req == TwoFactorReq(data.user_name, data)
            r == Response(o, ModifyUserStatus(users, req))
        IN  /\ log' = Logged(req, r)
            /\ faults' = Charge(o)
            /\ users' = IF o = "serve" THEN ModifyUser(users, req) ELSE users
            /\ UNCHANGED <<passwordResets, op, plan, state>>
            /\ IF Failed(r) THEN Abort ELSE UpdateGoto("getUser", data)

\* a bug: Delete deletes a method of the state before the account
Delete_MethodsFirst ==
    /\ op = "delete" /\ pc = "deleteUser"
    /\ \E o \in Outcomes :
        LET first == Len(log) = 0 /\ Len(StateMethods(state)) > 0
            req == IF first
                   THEN DeleteReq(data.user_name, StateMethods(state)[1].target)
                   ELSE Request("deleteUser", data.user_name)
            r == Response(o, StatusOK)
        IN  /\ log' = Logged(req, r)
            /\ faults' = Charge(o)
            /\ users' = IF o = "serve" /\ ~first
                        THEN DeleteUserUsers(users, req.userName) ELSE users
            /\ passwordResets' =
                IF o # "serve" THEN passwordResets
                ELSE IF first THEN DeletePasswordResetMethod(passwordResets, req)
                ELSE DeleteUserResets(passwordResets, req.userName)
            /\ UNCHANGED <<op, plan, state>>
            /\ IF Failed(r) THEN Abort
               ELSE IF first THEN UNCHANGED <<pc, data, idx, diag, saved>>
               ELSE /\ pc' = "done"
                    /\ saved' = <<>>
                    /\ UNCHANGED <<data, idx, diag>>

\* Delete: the one DeleteUser call; the resource leaves the state when the
\* call succeeded
Delete ==
    /\ op = "delete" /\ pc = "deleteUser"
    /\ \E o \in Outcomes :
        LET req == Request("deleteUser", data.user_name)
            r == Response(o, StatusOK)
        IN  /\ log' = Logged(req, r)
            /\ faults' = Charge(o)
            /\ users' = IF o = "serve" THEN DeleteUserUsers(users, req.userName) ELSE users
            /\ passwordResets' =
                IF o = "serve" THEN DeleteUserResets(passwordResets, req.userName)
                ELSE passwordResets
            /\ UNCHANGED <<op, plan, state>>
            /\ IF Failed(r) THEN Abort
               ELSE /\ pc' = "done"
                    /\ saved' = <<>>
                    /\ UNCHANGED <<data, idx, diag>>

\* readUser: the attributes GetUser's response sets
WithUser(d, u) ==
    [d EXCEPT !.enable_search_indexing = BoolValue(u.enableSearchIndexing),
              !.require_two_factor_authentication =
                  BoolValue(u.requireTwoFactorAuthentication)]

\* readUser: one item of the list response as a PasswordResetMethodModel
ToModel(item) ==
    MethodModel(item.type, item.target,
                IF item.description # Nil THEN item.description ELSE Null,
                IF item.allowMfaReset # Nil THEN item.allowMfaReset ELSE "false")

\* readUser: the list response as the password_reset_methods attribute
ToList(items) ==
    IF Len(items) > 0 THEN ListValue([i \in 1..Len(items) |-> ToModel(items[i])])
    ELSE ListNull

\* readUser: GetUser
readUserGetUser ==
    /\ pc = "getUser"
    /\ \E o \in Outcomes :
        LET req == Request("getUser", data.user_name)
            r == Response(o, GetUserStatus(users, req.userName))
        IN  /\ log' = Logged(req, r)
            /\ faults' = Charge(o)
            /\ UNCHANGED <<users, passwordResets, op, plan, state>>
            /\ IF r.err THEN Return(FALSE, TRUE, data)
               ELSE IF r.status = StatusNotFound THEN Return(FALSE, FALSE, data)
               ELSE IF r.status # StatusOK THEN Return(FALSE, TRUE, data)
               ELSE /\ pc' = "list"
                    /\ data' = WithUser(data, users[req.userName])
                    /\ UNCHANGED <<idx, diag, saved>>

\* readUser: ListPasswordResetMethods
readUserList ==
    /\ pc = "list"
    /\ \E o \in Outcomes :
        LET req == Request("list", data.user_name)
            r == Response(o, StatusOK)
        IN  /\ log' = Logged(req, r)
            /\ faults' = Charge(o)
            /\ UNCHANGED <<users, passwordResets, op, plan, state>>
            /\ IF r.err THEN Return(FALSE, TRUE, data)
               ELSE IF r.status = StatusOK
               THEN Return(TRUE, FALSE,
                        [data EXCEPT !.password_reset_methods =
                            ToList(ListPasswordResetMethods(passwordResets, req.userName))])
               ELSE Return(TRUE, FALSE, data)

(***************************************************************************)
(* The inputs of an operation.                                             *)
(***************************************************************************)
\* UserResourceModel
Model(un, nun, pw, pwo, si, tfa, ms, id) ==
    [user_name |-> un, new_user_name |-> nun, password |-> pw, password_wo |-> pwo,
     enable_search_indexing |-> si, require_two_factor_authentication |-> tfa,
     password_reset_methods |-> ms, id |-> id]

\* the methods a plan draws from: two share the target t1 and differ in the
\* description
MethodA == MethodModel("email", "t1", "d1", "false")
MethodA2 == MethodModel("email", "t1", "d2", "false")
MethodB == MethodModel("phone", "t2", Null, "true")
MethodC == MethodModel("email", "t3", Null, "false")

MethodInputs == {MethodA, MethodA2, MethodB, MethodC}

\* the methods a prior state draws from
ObservedInputs == {MethodA, MethodB}

\* the sequences over S of length n at most that repeat no element
SeqsUpTo(S, n) ==
    UNION {{q \in [1..k -> S] : \A i, j \in 1..k : q[i] = q[j] => i = j} : k \in 0..n}

DistinctTargets(q) == \A i, j \in 1..Len(q) : q[i].target = q[j].target => i = j

PlanLists == {ListNull} \cup {ListValue(q) : q \in SeqsUpTo(MethodInputs, MaxMethods)}

\* a snapshot holds a null list for no method, and one method for a target
ObservedLists ==
    {IF Len(q) = 0 THEN ListNull ELSE ListValue(q) :
        q \in {x \in SeqsUpTo(ObservedInputs, MaxObserved) : DistinctTargets(x)}}

BoolInputs == {Null, Unknown, "true", "false"}

\* password and password_wo
CredentialInputs == {<<Null, Null>>, <<"pw", "pwo">>}

Plans ==
    {Model("alice", nun, cr[1], cr[2], si, tfa, ms, Unknown) :
        nun \in {Null, "bob"}, cr \in CredentialInputs,
        si \in BoolInputs, tfa \in BoolInputs, ms \in PlanLists}

States ==
    {Model("alice", Null, Null, Null, si, tfa, ms, "alice") :
        si \in {"true", "false"}, tfa \in {Null, "true", "false"}, ms \in ObservedLists}

\* the state ImportState seeds: user_name only
Imported == Model("alice", Null, Null, Null, Null, Null, ListNull, Null)

\* the stored form of a method model
ToItem(m) ==
    [type |-> m.type, target |-> m.target,
     description |-> IF IsNull(m.description) THEN Nil ELSE m.description,
     allowMfaReset |-> m.allow_mfa_reset]

\* the server state a snapshot was read from
SyncedUsers(s) ==
    [NewUsers EXCEPT ![s.user_name] =
        [exists |-> TRUE,
         enableSearchIndexing |-> ValueBool(s.enable_search_indexing),
         requireTwoFactorAuthentication |-> ValueBool(s.require_two_factor_authentication)]]

SyncedResets(s) ==
    [NewPasswordResets EXCEPT ![s.user_name] =
        [i \in 1..Len(StateMethods(s)) |-> ToItem(StateMethods(s)[i])]]

\* the server holds what the snapshot s was read from
InitSynced(s) == users = SyncedUsers(s) /\ passwordResets = SyncedResets(s)

\* the server holds no account (the account was deleted outside Terraform)
InitEmpty == users = NewUsers /\ passwordResets = NewPasswordResets

InitCreate ==
    /\ op = "create" /\ pc = "createUser"
    /\ plan \in Plans
    /\ data = plan
    /\ state = plan
    /\ idx = 1
    /\ saved = <<>>
    /\ InitEmpty

InitUpdate ==
    /\ op = "update"
    /\ state \in States
    /\ plan \in Plans
    /\ pc = UpdateFirst(plan, state)
    /\ data = IF pc \in {"disable2FA", "modifyUser"} THEN plan ELSE Renamed(plan, state)
    /\ idx = IF pc = "delete" THEN NextDelete(plan, state, 1) ELSE 1
    /\ saved = <<state>>
    /\ InitSynced(state)

InitRead ==
    /\ op = "read" /\ pc = "getUser"
    /\ state \in States \cup {Imported}
    /\ plan = state
    /\ data = state
    /\ idx = 1
    /\ saved = <<state>>
    /\ (InitEmpty \/ \E s \in States : InitSynced(s))

InitDelete ==
    /\ op = "delete" /\ pc = "deleteUser"
    /\ state \in States
    /\ plan = state
    /\ data = state
    /\ idx = 1
    /\ saved = <<state>>
    /\ (InitEmpty \/ InitSynced(state))

Init ==
    /\ log = <<>>
    /\ diag = "none"
    /\ faults = 0
    /\ (InitCreate \/ InitUpdate \/ InitRead \/ InitDelete)

Next ==
    \/ CreateCreateUser
    \/ CreateModifyUser
    \/ CreateUpsert
    \/ CreateEnable2FA
    \/ UpdateDisable2FA
    \/ UpdateModifyUser
    \/ UpdateDelete
    \/ UpdateUpsert
    \/ UpdateEnable2FA
    \/ Delete
    \/ readUserGetUser
    \/ readUserList

Spec == Init /\ [][Next]_vars

(***************************************************************************)
(* The properties.                                                         *)
(***************************************************************************)
Calls == 1..Len(log)
Api(i) == log[i].req.api
Succeeded(i) == ~log[i].err /\ log[i].status = StatusOK
IsMutation(i) == Api(i) \in {"createUser", "modifyUser", "upsert", "delete", "deleteUser"}
Carries2FA(i, v) ==
    Api(i) = "modifyUser" /\ log[i].req.requireTwoFactorAuthentication = v

\* the handle the method calls and the 2FA-enable call of an Update address
Addressed == Renamed(plan, state).user_name

\* every method of the plan was upserted, with success, before call i
UpsertedBefore(i, userName) ==
    \A k \in 1..Len(PlanMethods(plan)) :
        \E j \in 1..(i - 1) :
            /\ log[j].req = UpsertReq(userName, PlanMethods(plan)[k])
            /\ Succeeded(j)

\* the operation is past its mutation calls and none of them failed
MutationsDone == pc \in {"getUser", "list"} \/ (pc = "done" /\ diag # "error")

\* C1: in a Create whose plan requires 2FA, CreateUser has succeeded before
\* every upsert, every method of the plan has been upserted with success
\* before the modify call that carries require2FA = true, that call is the
\* only one carrying it, and it is issued once the upserts are through.
C1_CreateEnables2FALast ==
    (op = "create" /\ plan.require_two_factor_authentication = "true") =>
        /\ \A i \in Calls : Api(i) = "upsert" =>
                \E j \in 1..(i - 1) : Api(j) = "createUser" /\ Succeeded(j)
        /\ \A i \in Calls : Carries2FA(i, "true") =>
                /\ UpsertedBefore(i, plan.user_name)
                /\ \A j \in Calls : Carries2FA(j, "true") => j = i
        /\ MutationsDone => \E i \in Calls : Carries2FA(i, "true")

C1_Witness ==
    /\ op = "create" /\ pc = "done" /\ diag = "none"
    /\ plan.require_two_factor_authentication = "true"
    /\ Len(PlanMethods(plan)) >= 2
    /\ \E i \in Calls : Carries2FA(i, "true") /\ Succeeded(i)

\* C2: in an Update from observed 2FA = true to desired 2FA = false, the first
\* call is the modify call that carries require2FA = false for the observed
\* handle; every delete call, and every other call, comes after it.
C2_UpdateDisables2FAFirst ==
    (/\ op = "update"
     /\ state.require_two_factor_authentication = "true"
     /\ plan.require_two_factor_authentication = "false") =>
        IF Len(log) = 0 THEN pc = "disable2FA"
        ELSE /\ log[1].req =
                    [Request("modifyUser", state.user_name) EXCEPT
                        !.requireTwoFactorAuthentication = "false"]
             /\ \A i \in Calls : Api(i) = "delete" => i > 1 /\ Succeeded(1)
             /\ \A i \in Calls : i > 1 => Succeeded(1) /\ ~Carries2FA(i, "false")

C2_Witness ==
    /\ op = "update" /\ pc = "done" /\ diag = "none"
    /\ state.require_two_factor_authentication = "true"
    /\ plan.require_two_factor_authentication = "false"
    /\ Len(StateMethods(state)) = 2
    /\ Len(PlanMethods(plan)) = 0
    /\ \E i \in Calls : Api(i) = "delete" /\ Succeeded(i)

\* C3: in an Update from observed 2FA = false (or null) to desired 2FA = true,
\* every method of the plan has been upserted with success before the modify
\* call that carries require2FA = true, no mutation call follows that call,
\* and the call is issued once the upserts are through.
C3_UpdateEnables2FALast ==
    (/\ op = "update"
     /\ state.require_two_factor_authentication \in {Null, "false"}
     /\ plan.require_two_factor_authentication = "true") =>
        /\ \A i \in Calls : Carries2FA(i, "true") =>
                /\ UpsertedBefore(i, Addressed)
                /\ \A j \in Calls : j > i => ~IsMutation(j)
        /\ MutationsDone => \E i \in Calls : Carries2FA(i, "true")

C3_Witness ==
    /\ op = "update" /\ pc = "done" /\ diag = "none"
    /\ state.require_two_factor_authentication = "false"
    /\ plan.require_two_factor_authentication = "true"
    /\ Len(PlanMethods(plan)) >= 2
    /\ \E i \in Calls : Api(i) = "delete"
    /\ \E i \in Calls : Carries2FA(i, "true") /\ Succeeded(i)

\* I1 on the server: an account that requires 2FA has a recovery method
I1 ==
    \A h \in Handles :
        (users[h].exists /\ users[h].requireTwoFactorAuthentication) =>
            Len(passwordResets[h]) > 0

\* C4: in every state the server reaches from its initial state (NewServer)
\* under the calls of the resource, an account that requires 2FA has at least
\* one recovery method.  A Create starts from NewServer.
C4_I1FromNewServer == op = "create" => I1

DeleteCalls == {i \in Calls : Api(i) = "delete"}

\* C5: in an Update that keeps 2FA enabled, with observed methods and an empty
\* desired list, the delete call that removes the last method is not issued:
\* there are fewer delete calls than observed methods.
C5_DrainVetoed ==
    (/\ op = "update"
     /\ state.require_two_factor_authentication = "true"
     /\ plan.require_two_factor_authentication = "true"
     /\ Len(StateMethods(state)) > 0
     /\ Len(PlanMethods(plan)) = 0) =>
        Cardinality(DeleteCalls) < Len(StateMethods(state))

Reflects(snap) ==
    /\ users[snap.user_name].exists
    /\ snap.require_two_factor_authentication =
            BoolValue(users[snap.user_name].requireTwoFactorAuthentication)
    /\ snap.password_reset_methods = ToList(passwordResets[snap.user_name])

\* C7: when a Create or Update ends with an error after a mutation call has
\* succeeded, the recorded snapshot holds the account, and its 2FA flag and
\* methods are the server's.
C7_PartialProgressRecorded ==
    (/\ op \in {"create", "update"}
     /\ pc = "done" /\ diag = "error"
     /\ \E i \in Calls : IsMutation(i) /\ Succeeded(i)) =>
        saved # <<>> /\ Reflects(saved[1])

\* desired equals observed: no rename, no credential, the observed flags and
\* the observed methods
DesiredEqualsObserved ==
    /\ op = "update"
    /\ plan.user_name = state.user_name
    /\ plan.new_user_name = Null
    /\ plan.password = Null
    /\ plan.password_wo = state.password_wo
    /\ plan.enable_search_indexing = state.enable_search_indexing
    /\ plan.require_two_factor_authentication = state.require_two_factor_authentication
    /\ plan.password_reset_methods = state.password_reset_methods

AllSucceeded == \A i \in Calls : Succeeded(i)

\* the methods the server holds for a handle, as a set
Items(h) == {passwordResets[h][i] : i \in 1..Len(passwordResets[h])}

PlanItems == {ToItem(PlanMethods(plan)[k]) : k \in 1..Len(PlanMethods(plan))}

IsResolved(v) == v \in {"true", "false"}

\* C9: an Update starts with the server holding what the observed snapshot
\* holds.  When it has returned and every call succeeded, the server holds
\* for the account exactly the desired methods (one per target, with the
\* desired type, description and allow-MFA-reset flag), and the desired 2FA
\* and search-indexing flags where the plan resolves them.
C9_Converges ==
    (/\ op = "update" /\ pc = "done"
     /\ AllSucceeded
     /\ DistinctTargets(PlanMethods(plan))) =>
        /\ Items(Addressed) = PlanItems
        /\ Len(passwordResets[Addressed]) = Len(PlanMethods(plan))
        /\ IsResolved(plan.require_two_factor_authentication) =>
            users[Addressed].requireTwoFactorAuthentication =
                ValueBool(plan.require_two_factor_authentication)
        /\ IsResolved(plan.enable_search_indexing) =>
            users[Addressed].enableSearchIndexing =
                ValueBool(plan.enable_search_indexing)

C9_Witness ==
    /\ op = "update" /\ pc = "done" /\ AllSucceeded
    /\ StateMethods(state) = <<MethodA, MethodB>>
    /\ PlanMethods(plan) = <<MethodC, MethodA2>>
    /\ state.require_two_factor_authentication = "true"
    /\ plan.require_two_factor_authentication = "false"
    /\ state.enable_search_indexing = "true"
    /\ plan.enable_search_indexing = "false"

\* the methods of the state that the plan holds unchanged
Identical ==
    {m \in {StateMethods(state)[k] : k \in 1..Len(StateMethods(state))} :
        \E j \in 1..Len(PlanMethods(plan)) : PlanMethods(plan)[j] = m}

Touches(i, m) == Api(i) \in {"upsert", "delete"} /\ log[i].req.target = m.target

IsMethodCall(e) == e.req.api \in {"upsert", "delete"}

\* the upsert and delete requests issued so far, in order
MethodReqs ==
    LET sel == SelectSeq(log, IsMethodCall)
    IN  [i \in 1..Len(sel) |-> sel[i].req]

\* observed = {a, b}, desired = {a', b, c}
ScenarioP4 ==
    /\ op = "update"
    /\ StateMethods(state) = <<MethodA, MethodB>>
    /\ PlanMethods(plan) = <<MethodA2, MethodB, MethodC>>

MethodCalls(d, s) ==
    LET userName == Renamed(d, s).user_name
        Gone(m) == m.target \notin PlanTargets(d)
        gone == SelectSeq(StateMethods(s), Gone)
    IN  [i \in 1..Len(gone) |-> DeleteReq(userName, gone[i].target)]
            \o [i \in 1..Len(PlanMethods(d)) |-> UpsertReq(userName, PlanMethods(d)[i])]

\* the plans that hold the methods of d in another list order
Reordered(d) ==
    LET q == PlanMethods(d)
    IN  {[d EXCEPT !.password_reset_methods = ListValue([i \in 1..Len(q) |-> q[p[i]]])] :
            p \in Permutations(1..Len(q))}

\* C11: an Update that has issued its method calls has issued the sequence of
\* delete and upsert calls that any plan holding the same methods in another
\* list order makes it issue.
C11_OrderIndependent ==
    (op = "update" /\ MutationsDone /\ Len(PlanMethods(plan)) > 0) =>
        \A d \in Reordered(plan) : MethodReqs = MethodCalls(d, state)

IsMutationCall(e) ==
    e.req.api \in {"createUser", "modifyUser", "upsert", "delete", "deleteUser"}

\* the requests of the mutation calls issued so far, in order
MutationReqs ==
    LET sel == SelectSeq(log, IsMutationCall)
    IN  [i \in 1..Len(sel) |-> sel[i].req]

\* Scenario A: a Create of alice with require2FA = true, one email method and
\* no other attribute set
ScenarioA ==
    /\ op = "create"
    /\ plan.user_name = "alice"
    /\ plan.new_user_name = Null
    /\ plan.password = Null /\ plan.password_wo = Null
    /\ ~IsSet(plan.enable_search_indexing)
    /\ plan.require_two_factor_authentication = "true"
    /\ Len(PlanMethods(plan)) = 1
    /\ PlanMethods(plan)[1].type = "email"

\* C12: the mutation calls of Scenario A are CreateUser(alice), the upsert of
\* the method and the modify call that carries require2FA = true, in this
\* order, and no other.
C12_ScenarioA ==
    (ScenarioA /\ MutationsDone) =>
        MutationReqs = << Request("createUser", "alice"),
                          UpsertReq("alice", PlanMethods(plan)[1]),
                          TwoFactorReq("alice", plan) >>

\* Scenario B: an Update of an account from (require2FA = true, one method) to
\* (require2FA = false, no method) with no other attribute set
ScenarioB ==
    /\ op = "update"
    /\ state.require_two_factor_authentication = "true"
    /\ Len(StateMethods(state)) = 1
    /\ plan.user_name = state.user_name
    /\ plan.new_user_name = Null
    /\ plan.password = Null /\ plan.password_wo = Null
    /\ ~IsSet(plan.enable_search_indexing)
    /\ plan.require_two_factor_authentication = "false"
    /\ Len(PlanMethods(plan)) = 0

\* C13: the mutation calls of Scenario B are the modify call that carries
\* require2FA = false and the delete of the method's target, in this order,
\* and no other.
C13_ScenarioB ==
    (ScenarioB /\ MutationsDone) =>
        MutationReqs = << TwoFactorReq(state.user_name, plan),
                          DeleteReq(state.user_name, StateMethods(state)[1].target) >>

\* C14: in a Read, a GetUser call answered with 404 is the last call, removes
\* the resource from the state and reports nothing; a GetUser call answered
\* with another non-success status is the last call, reports an error and
\* leaves the state as it was.
C14_ReadNotFoundRemoves ==
    op = "read" =>
        \A i \in Calls : (Api(i) = "getUser" /\ ~log[i].err) =>
            /\ log[i].status = StatusNotFound =>
                /\ i = Len(log) /\ pc = "done"
                /\ saved = <<>>
                /\ diag = "none"
            /\ log[i].status \notin {StatusOK, StatusNotFound} =>
                /\ i = Len(log) /\ pc = "done"
                /\ saved = <<state>>
                /\ diag = "error"

C14_Witness ==
    /\ op = "read" /\ pc = "done"
    /\ Len(log) = 1
    /\ Api(1) = "getUser" /\ ~log[1].err /\ log[1].status = StatusNotFound
    /\ Len(StateMethods(state)) = 2
    /\ saved = <<>>

\* C15: a Delete issues one call, DeleteUser for the handle of the state, and
\* no other call, whatever methods the state holds.
C15_DeleteIsOneCall ==
    op = "delete" =>
        /\ Len(log) <= 1
        /\ \A i \in Calls : log[i].req = Request("deleteUser", state.user_name)
        /\ pc = "done" => Len(log) = 1

C15_Witness ==
    /\ op = "delete" /\ pc = "done" /\ diag = "none"
    /\ Len(StateMethods(state)) = 2
    /\ Len(log) = 1 /\ Succeeded(1)
    /\ passwordResets[state.user_name] = <<>>
    /\ saved = <<>>

\* a Create or Update has returned and the last call, a call of its read
\* back, failed; the mutation calls before it all succeeded
RefetchFailed ==
    /\ op \in {"create", "update"} /\ pc = "done"
    /\ Len(log) > 0
    /\ Api(Len(log)) \in {"getUser", "list"}
    /\ ~Succeeded(Len(log))

\* C16: a Create or Update whose read back failed reports a warning, no
\* error, and records the snapshot with the plan's methods for the handle it
\* addressed.
C16_RefetchFailureWarns ==
    RefetchFailed =>
        /\ diag = "warning"
        /\ saved # <<>>
        /\ saved[1].user_name = log[Len(log)].req.userName
        /\ saved[1].password_reset_methods = plan.password_reset_methods

\* call i was answered with the not-found status
NotFound(i) == ~log[i].err /\ log[i].status = StatusNotFound

\* C17: in a Create or Update every call answered with the not-found status,
\* the GetUser call of the read back included, is the last call and ends the
\* operation with an error.
C17_NotFoundIsFatal ==
    op \in {"create", "update"} =>
        \A i \in Calls : NotFound(i) =>
            i = Len(log) /\ pc = "done" /\ diag = "error"

\* desired 2FA = true with no desired method
NoMethods2FA ==
    /\ op \in {"create", "update"}
    /\ plan.require_two_factor_authentication = "true"
    /\ Len(PlanMethods(plan)) = 0

\* C18, as claimed: a Create or Update with desired 2FA = true and no desired
\* method issues no upsert call, issues the modify call that carries
\* require2FA = true once the calls before it succeeded, and ends with an
\* error when that call fails.
C18_EnableAlwaysIssued ==
    NoMethods2FA =>
        /\ \A i \in Calls : Api(i) # "upsert"
        /\ MutationsDone => \E i \in Calls : Carries2FA(i, "true")
        /\ \A i \in Calls : (Carries2FA(i, "true") /\ ~Succeeded(i)) =>
                i = Len(log) /\ pc = "done" /\ diag = "error"

\* the operation has the 2FA transition to make: a Create, or an Update whose
\* state does not hold require2FA = true
Transition2FA ==
    op = "create" \/ state.require_two_factor_authentication \in {Null, "false"}

\* C18, amended: a Create or Update with desired 2FA = true and no desired
\* method issues no upsert call.  A Create, and an Update whose observed 2FA
\* is false or absent, issues the modify call that carries require2FA = true
\* once the calls before it succeeded, as its last mutation call, and ends
\* with an error when that call fails; an Update whose observed 2FA is true
\* issues no call that carries require2FA.
C18_NoAutoCorrection ==
    NoMethods2FA =>
        /\ \A i \in Calls : Api(i) # "upsert"
        /\ (Transition2FA /\ MutationsDone) =>
                \E i \in Calls :
                    /\ Carries2FA(i, "true")
                    /\ \A j \in Calls : j > i => ~IsMutation(j)
        /\ ~Transition2FA =>
                \A i \in Calls :
                    Api(i) = "modifyUser" => log[i].req.requireTwoFactorAuthentication = Nil
        /\ \A i \in Calls : (Carries2FA(i, "true") /\ ~Succeeded(i)) =>
                i = Len(log) /\ pc = "done" /\ diag = "error"

C18_Witness ==
    /\ NoMethods2FA /\ op = "update"
    /\ Len(StateMethods(state)) = 1
    /\ pc = "done" /\ diag = "error"
    /\ Carries2FA(Len(log), "true")
    /\ ~log[Len(log)].err /\ log[Len(log)].status = StatusBadRequest
    /\ \E i \in Calls : Api(i) = "delete" /\ Succeeded(i)

\* the plan holds no credential, no rename and no resolved flag
NothingResolved ==
    /\ ~IsSet(plan.password) /\ ~IsSet(plan.password_wo)
    /\ (op = "update" => ~Renames(plan, state))
    /\ ~IsSet(plan.enable_search_indexing)
    /\ ~IsSet(plan.require_two_factor_authentication)

\* the modify call i carries no attribute
CarriesNothing(i) ==
    /\ Api(i) = "modifyUser"
    /\ log[i].req.newUserName = Nil
    /\ log[i].req.newPassword = Nil
    /\ log[i].req.enableSearchIndexing = Nil
    /\ log[i].req.requireTwoFactorAuthentication = Nil

\* C19: in a Create or Update an unknown flag of the plan causes no call: no
\* modify call carries nothing, no modify call is issued when the plan holds
\* no credential, no rename and no resolved flag, and an Update whose plan
\* holds an unknown require2FA does not start with the 2FA-disable step.
C19_UnresolvedNotActedOn ==
    op \in {"create", "update"} =>
        /\ \A i \in Calls : ~CarriesNothing(i)
        /\ NothingResolved => \A i \in Calls : Api(i) # "modifyUser"
        /\ IsUnknown(plan.require_two_factor_authentication) => pc # "disable2FA"

\* the server holds for the state's handle the methods of the state: the same
\* targets with the same attributes, in any order
RemoteEqualsObserved ==
    /\ Items(state.user_name) =
            {ToItem(StateMethods(state)[k]) : k \in 1..Len(StateMethods(state))}
    /\ Len(passwordResets[state.user_name]) = Len(StateMethods(state))

\* C20: a Read that succeeds while the server holds the methods of the state
\* records the methods in the order of the state.
C20_ReadKeepsOrder ==
    (/\ op = "read" /\ pc = "done" /\ diag = "none"
     /\ saved # <<>>
     /\ RemoteEqualsObserved) =>
        saved[1].password_reset_methods = state.password_reset_methods

\* call i is the modify call that carries the new handle
CarriesRename(i) == Api(i) = "modifyUser" /\ log[i].req.newUserName # Nil

C22_IdIsHandle ==
    (/\ op \in {"create", "read", "update"}
     /\ pc = "done" /\ diag # "error"
     /\ saved # <<>>) =>
        saved[1].id = saved[1].user_name

(***************************************************************************)
(* The server as one function of the request (api.Handler routes a request *)
(* to the handler of its path).                                            *)
(***************************************************************************)
ServedStatus(u, req) ==
    CASE req.api = "modifyUser" -> ModifyUserStatus(u, req)
      [] req.api = "getUser" -> GetUserStatus(u, req.userName)
      [] OTHER -> StatusOK

ServedUsers(u, req) ==
    CASE req.api = "createUser" -> CreateUser(u, req.userName)
      [] req.api = "modifyUser" -> ModifyUser(u, req)
      [] req.api = "deleteUser" -> DeleteUserUsers(u, req.userName)
      [] OTHER -> u

ServedResets(p, req) ==
    CASE req.api = "upsert" -> CreateOrUpdatePasswordResetMethod(p, req)
      [] req.api = "delete" -> DeletePasswordResetMethod(p, req)
      [] req.api = "deleteUser" -> DeleteUserResets(p, req.userName)
      [] OTHER -> p

\* call k reached the server: no transport error, and not the status of a
\* call refused before its handler
WasServed(k) == ~log[k].err /\ log[k].status # StatusBadRequest

RECURSIVE UsersAfter(_, _)
\* Server.users after the first k calls of the log, from u0
UsersAfter(u0, k) ==
    IF k = 0 THEN u0
    ELSE LET u == UsersAfter(u0, k - 1)
         IN  IF WasServed(k) THEN ServedUsers(u, log[k].req) ELSE u

RECURSIVE ResetsAfter(_, _)
\* Server.passwordResets after the first k calls of the log, from p0
ResetsAfter(p0, k) ==
    IF k = 0 THEN p0
    ELSE LET q == ResetsAfter(p0, k - 1)
         IN  IF WasServed(k) THEN ServedResets(q, log[k].req) ELSE q

\* the server's state when a Create (new server) or an Update (in sync with
\* the state) starts
StartUsers == IF op = "create" THEN NewUsers ELSE SyncedUsers(state)
StartResets == IF op = "create" THEN NewPasswordResets ELSE SyncedResets(state)

DroppedTargets ==
    {StateMethods(state)[k].target : k \in 1..Len(StateMethods(state))}
        \ {PlanMethods(plan)[k].target : k \in 1..Len(PlanMethods(plan))}

UpsertCalls == {i \in Calls : Api(i) = "upsert"}

\* C25: the method calls of an Update are one delete call for each observed
\* target that is not desired, and for no other target, and then one upsert
\* call for each method of the plan, in the plan's order; every delete call
\* is issued before every upsert call.
C25_MethodCallsAreOpList ==
    op = "update" =>
        /\ \A i \in DeleteCalls :
            /\ log[i].req = DeleteReq(Addressed, log[i].req.target)
            /\ log[i].req.target \in DroppedTargets
            /\ \A j \in DeleteCalls : log[j].req.target = log[i].req.target => j = i
        /\ \A i \in UpsertCalls : \A j \in DeleteCalls : j < i
        /\ \A i \in UpsertCalls :
            LET k == Cardinality({j \in UpsertCalls : j <= i})
            IN  /\ k <= Len(PlanMethods(plan))
                /\ log[i].req = UpsertReq(Addressed, PlanMethods(plan)[k])
        /\ MutationsDone =>
            /\ {log[i].req.target : i \in DeleteCalls} = DroppedTargets
            /\ Cardinality(UpsertCalls) = Len(PlanMethods(plan))

C25_Witness ==
    /\ op = "update" /\ pc = "done" /\ diag = "none"
    /\ StateMethods(state) = <<MethodA, MethodB>>
    /\ PlanMethods(plan) = <<MethodC, MethodA>>
    /\ Cardinality(DeleteCalls) = 1
    /\ Cardinality(UpsertCalls) = 2

\* the gate has nothing to do: an Update whose plan holds the state's
\* require2FA, or a Create whose plan does not hold require2FA = true
GateNoOp ==
    \/ op = "update" /\
        plan.require_two_factor_authentication = state.require_two_factor_authentication
    \/ op = "create" /\ plan.require_two_factor_authentication # "true"

\* the modify call i carries a handle, a credential or the search-indexing flag
IsCombined(i) ==
    /\ Api(i) = "modifyUser"
    /\ \/ log[i].req.newUserName # Nil
       \/ log[i].req.newPassword # Nil
       \/ log[i].req.enableSearchIndexing # Nil

\* C26: when the gate has nothing to do no modify call carries a require2FA
\* value, and in every Create and Update the combined modify call carries
\* none.
C26_GateNoOp ==
    /\ GateNoOp =>
        \A i \in Calls :
            Api(i) = "modifyUser" => log[i].req.requireTwoFactorAuthentication = Nil
    /\ op \in {"create", "update"} =>
        \A i \in Calls :
            IsCombined(i) => log[i].req.requireTwoFactorAuthentication = Nil

C26_Witness ==
    /\ op = "update" /\ pc = "done" /\ diag = "none"
    /\ state.require_two_factor_authentication = "true"
    /\ plan.require_two_factor_authentication = "true"
    /\ \E i \in Calls : IsCombined(i) /\ Succeeded(i)
    /\ \E i \in Calls : Api(i) = "upsert" /\ Succeeded(i)

\* C27: every method the server stores belongs to an account the server
\* holds.
C27_MethodsHaveAccount ==
    \A h \in Handles : Len(passwordResets[h]) > 0 => users[h].exists

(***************************************************************************)
(* The server alone: any sequence of CreateUser, DeleteUser, upsert and    *)
(* delete-method calls, for any handle, from NewServer.                    *)
(***************************************************************************)
ServerReqs ==
    UNION {
        {Request("createUser", h), Request("deleteUser", h),
         UpsertReq(h, MethodA), UpsertReq(h, MethodA2), UpsertReq(h, MethodB),
         DeleteReq(h, MethodA.target)} : h \in Handles}

InitServer ==
    /\ users = NewUsers /\ passwordResets = NewPasswordResets
    /\ op = "serve" /\ pc = "serve"
    /\ plan = Imported /\ data = Imported /\ state = Imported
    /\ idx = 1
    /\ log = <<>>
    /\ diag = "none"
    /\ saved = <<>>
    /\ faults = 0

\* one call served by the server
ServerCall ==
    /\ op = "serve"
    /\ Len(log) < MaxCalls
    /\ \E req \in ServerReqs :
        /\ log' = Logged(req, Response("serve", ServedStatus(users, req)))
        /\ users' = ServedUsers(users, req)
        /\ passwordResets' = ServedResets(passwordResets, req)
    /\ UNCHANGED <<op, pc, plan, data, state, idx, diag, saved, faults>>

NextServer == ServerCall

SpecServer == InitServer /\ [][NextServer]_vars

\* C27, for the server alone: after any sequence of CreateUser, DeleteUser,
\* upsert and delete-method calls every stored method belongs to an account
\* the server holds.
C27_ServerMethodsHaveAccount ==
    op = "serve" => C27_MethodsHaveAccount

\* the methods stored for handle h under the target tg
StoredFor(p, h, tg) == {k \in 1..Len(p[h]) : p[h][k].target = tg}

\* the step sends again the upsert request that was sent last
RepeatsUpsert ==
    /\ Len(log) > 0
    /\ log[Len(log)].req.api = "upsert"
    /\ log' = Append(log, log[Len(log)])

\* C30: an upsert call that repeats the call before it leaves the server's
\* state as it is, with one method stored for its handle and target.
C30_UpsertIdempotent ==
    [][RepeatsUpsert =>
        /\ users' = users
        /\ passwordResets' = passwordResets
        /\ Cardinality(StoredFor(passwordResets', log[Len(log)].req.userName,
                                 log[Len(log)].req.target)) = 1]_vars

C30_Witness ==
    /\ op = "serve"
    /\ Len(log) = 3
    /\ log[2].req = UpsertReq("alice", MethodA2)
    /\ log[3] = log[2]
    /\ log[1].req = UpsertReq("alice", MethodA)
    /\ passwordResets["alice"] = <<ToItem(MethodA2)>>

\* the operation has returned and its last call, the list call of readUser,
\* was answered with a status other than 200
ListRefused ==
    /\ op \in {"read", "create", "update"} /\ pc = "done"
    /\ Len(log) > 0
    /\ Api(Len(log)) = "list"
    /\ ~log[Len(log)].err
    /\ log[Len(log)].status # StatusOK

\* C28: a Read, Create or Update whose list call was answered with a status
\* other than 200 reports an error or a warning.
C28_ListFailureSurfaced ==
    ListRefused => diag \in {"error", "warning"}

(***************************************************************************)
(* The id of the standalone password reset method resource.  A string is   *)
(* the sequence of its characters.                                         *)
(***************************************************************************)
Chars == {"a", "b", ":"}

\* the strings of MaxLen characters at most
Strings == UNION {[1..k -> Chars] : k \in 0..MaxLen}

\* PasswordResetMethodResource.Create: fmt.Sprintf("%s:%s", UserName, Target)
FormatId(user, target) == user \o <<":">> \o target

\* strings.Split(s, ":"), with the parts found so far and the part being read
RECURSIVE SplitAcc(_, _, _)
SplitAcc(s, parts, cur) ==
    IF s = <<>> THEN Append(parts, cur)
    ELSE IF Head(s) = ":" THEN SplitAcc(Tail(s), Append(parts, cur), <<>>)
    ELSE SplitAcc(Tail(s), parts, Append(cur, Head(s)))

Split(s) == SplitAcc(s, <<>>, <<>>)

InitId ==
    /\ users = NewUsers /\ passwordResets = NewPasswordResets
    /\ op = "import" /\ pc = "create"
    /\ \E u \in Strings, tg \in Strings :
        /\ plan = [user_name |-> u, target |-> tg]
        /\ data = [user_name |-> u, target |-> tg, id |-> <<>>]
    /\ state = Imported
    /\ idx = 1
    /\ log = <<>>
    /\ diag = "none"
    /\ saved = <<>>
    /\ faults = 0

\* PasswordResetMethodResource.Create whose upsert call succeeded: the id it
\* records.  Its read back assigns type, description and allow_mfa_reset only.
MethodCreate ==
    /\ op = "import" /\ pc = "create"
    /\ data' = [data EXCEPT !.id = FormatId(data.user_name, data.target)]
    /\ pc' = "import"
    /\ UNCHANGED <<users, passwordResets, op, plan, state, idx, log, diag, saved, faults>>

\* PasswordResetMethodResource.ImportState, given the id Create recorded
MethodImportState ==
    /\ op = "import" /\ pc = "import"
    /\ LET idParts == Split(data.id)
       IN  IF Len(idParts) # 2
           THEN diag' = "error" /\ saved' = saved
           ELSE /\ diag' = diag
                /\ saved' = <<[id |-> data.id, user_name |-> idParts[1],
                               target |-> idParts[2]]>>
    /\ pc' = "done"
    /\ UNCHANGED <<users, passwordResets, op, plan, data, state, idx, log, faults>>

NextId == MethodCreate \/ MethodImportState

SpecId == InitId /\ [][NextId]_vars

\* C29: ImportState accepts the id Create recorded for a handle and a target
\* and yields that handle as user_name and that target.
C29_IdRoundTrip ==
    (op = "import" /\ pc = "done") =>
        /\ diag = "none"
        /\ saved # <<>>
        /\ saved[1].user_name = plan.user_name
        /\ saved[1].target = plan.target

(***************************************************************************)
(* Two operations on different handles.  One operation on "alice" runs     *)
(* alone to its end; the server is put back to where it started and the    *)
(* operation runs again, now with the calls of an operation on "bob"       *)
(* served between its calls.  The handlers of the server hold Server.mu    *)
(* for a whole call, so calls interleave and handlers do not.  The log     *)
(* keeps the first run, a mark holding what it left, and the second run.   *)
(***************************************************************************)
PairPlans ==
    {Model("alice", Null, Null, Null, si, tfa, ms, Unknown) :
        si \in {Null, "true"}, tfa \in {Null, "true", "false"},
        ms \in {ListValue(<<MethodA>>), ListValue(<<MethodA2, MethodB>>)}}

PairStates ==
    {Model("alice", Null, Null, Null, "false", tfa, ms, "alice") :
        tfa \in {Null, "true"}, ms \in {ListNull, ListValue(<<MethodA, MethodB>>)}}

\* how the operation starts
FirstPc ==
    CASE op = "create" -> "createUser"
      [] op = "update" -> UpdateFirst(plan, state)
      [] op = "read" -> "getUser"
      [] op = "delete" -> "deleteUser"

FirstData ==
    IF op = "update" /\ FirstPc \notin {"disable2FA", "modifyUser"}
    THEN Renamed(plan, state) ELSE plan

FirstIdx ==
    IF op = "update" /\ FirstPc = "delete" THEN NextDelete(plan, state, 1) ELSE 1

FirstSaved == IF op = "create" THEN <<>> ELSE <<state>>

InitPair ==
    /\ log = <<>>
    /\ diag = "none"
    /\ faults = MaxFaults
    /\ (InitCreate \/ InitUpdate \/ InitRead \/ InitDelete)
    /\ plan \in PairPlans \cup PairStates
    /\ state \in PairPlans \cup PairStates
    /\ users = StartUsers /\ passwordResets = StartResets

\* the mark between the two runs
IsMark(e) == e.req.api = "restart"
Marks == {i \in 1..Len(log) : IsMark(log[i])}
Mark == CHOOSE i \in Marks : TRUE

\* the first run has returned: the second run starts from the same server
PairRestart ==
    /\ pc = "done" /\ Marks = {}
    /\ faults = MaxFaults
    /\ log' = Append(log,
                [req |-> Request("restart", plan.user_name), err |-> FALSE, status |-> 0,
                 solo |-> [users |-> users, passwordResets |-> passwordResets,
                           saved |-> saved, diag |-> diag]])
    /\ users' = StartUsers /\ passwordResets' = StartResets
    /\ pc' = FirstPc /\ data' = FirstData /\ idx' = FirstIdx
    /\ saved' = FirstSaved
    /\ diag' = "none"
    /\ UNCHANGED <<op, plan, state, faults>>

\* the calls an operation on "bob" sends
OtherReqs == {req \in ServerReqs : req.userName = "bob"}
IsOther(e) == e.req.userName = "bob"
IsOwn(e) == ~IsOther(e)

\* the server serves one call of the operation on "bob"
OtherCall ==
    /\ Marks # {}
    /\ Len(SelectSeq(log, IsOther)) < MaxOther
    /\ \E req \in OtherReqs :
        /\ log' = Logged(req, Response("serve", ServedStatus(users, req)))
        /\ users' = ServedUsers(users, req)
        /\ passwordResets' = ServedResets(passwordResets, req)
    /\ UNCHANGED <<op, pc, plan, data, state, idx, diag, saved, faults>>

NextPair == Next \/ PairRestart \/ OtherCall

SpecPair == InitPair /\ [][NextPair]_vars

\* the second run has returned
PairDone == Marks # {} /\ pc = "done"

\* the calls of the first run, and the calls of the second run on its handle
SoloRun == SubSeq(log, 1, Mark - 1)
PairedRun == SelectSeq(SubSeq(log, Mark + 1, Len(log)), IsOwn)

====
